---- MODULE Spec2Model ----
(***************************************************************************)
(* A model of @resolute/coerce: the coerce(value).to(...).or(otherwise)    *)
(* pipeline of src/index.ts and the two text mutators quotes and proper    *)
(* of src/mutator.ts.                                                      *)
(*                                                                         *)
(* A string is a sequence of UTF-16 code units (integers).  A regular      *)
(* expression replace is modelled by what String.prototype.replace does    *)
(* with a global pattern: scan left to right, at each position try the     *)
(* pattern, on a match emit the replacement and continue after the match,  *)
(* otherwise copy one code unit.                                           *)
(***************************************************************************)
EXTENDS Integers, Sequences, FiniteSets

VARIABLES
    op,          \* the entry point that was called: "coerce", "quotes", "proper"
    pc,          \* the position of the call
    value,       \* the argument of the call
    subject,     \* the value being worked on (pipe's value, reduce's subject)
    step,        \* pipe's index / the number of rules already applied
    mixedCase,   \* proper: the flag handed to properNameCapitalizer
    sanitizers,  \* coerce: the functions given to .to()
    otherwise,   \* coerce: the argument of .or()
    calls,       \* coerce: the log of sanitizer calls <<name, argument>>
    error,       \* coerce: what the catch clause caught
    handled,     \* coerce: the log of calls of a function otherwise
    outcome      \* what the call did: returned a value or threw one

vars == <<op, pc, value, subject, step, mixedCase, sanitizers, otherwise,
          calls, error, handled, outcome>>

----------------------------------------------------------------------------
(* Code units the source names.                                            *)
QUOT == 34
APOS == 39
COMMA == 44
HYPHEN == 45
PERIOD == 46
SPACE == 32
UNDERSCORE == 95
LSQUO == 8216
RSQUO == 8217
LDQUO == 8220
RDQUO == 8221
ELLIPSIS == 8230
EMDASH == 8212
PRIME == 8242
DPRIME == 8243
TPRIME == 8244

(* Character classes of a RegExp without the u flag.                       *)
IsDigit(c) == c \in 48..57
IsUpperAZ(c) == c \in 65..90
IsLowerAZ(c) == c \in 97..122
IsLetterAZ(c) == IsUpperAZ(c) \/ IsLowerAZ(c)
IsWord(c) == IsLetterAZ(c) \/ IsDigit(c) \/ c = UNDERSCORE
IsWhite(c) ==
    c \in (9..13) \cup {32, 160, 5760, 8232, 8233, 8239, 8287, 12288, 65279}
          \cup (8192..8202)

(* s[i], or -1 beyond either end of s.                                     *)
At(s, i) == IF i >= 1 /\ i <= Len(s) THEN s[i] ELSE -1
Has(s, i) == i >= 1 /\ i <= Len(s)

(* \b before position i (between s[i-1] and s[i]); the ends count as       *)
(* non-word.                                                               *)
WordAt(s, i) == Has(s, i) /\ IsWord(s[i])
Boundary(s, i) == WordAt(s, i - 1) # WordAt(s, i)

(* The first position >= i holding a code unit of set cs, or Len(s)+1.     *)
RECURSIVE FirstOf(_, _, _)
FirstOf(s, cs, i) ==
    IF i > Len(s) THEN Len(s) + 1
    ELSE IF s[i] \in cs THEN i
    ELSE FirstOf(s, cs, i + 1)

(* s[a..b], empty when a > b.                                              *)
Slice(s, a, b) == IF a > b THEN <<>> ELSE SubSeq(s, a, b)

----------------------------------------------------------------------------
(* quotes: the cascade of 14 [search, replacement] pairs, in source order. *)
NumRules == 14

(* The lookahead of the backwards-apostrophe rule, from position p:        *)
(*   ([^‘’]*’\b)*([^‘’]*\B\W[‘’]\b|[^‘’]*$)                                *)
(* LookTail is the final group, tried after any number of the segments     *)
(* [^‘’]*’\b that LookAhead steps over.                                    *)
(* The final group without its second alternative [^‘’]*$.                 *)
LookTailNoEnd(s, p) ==
    LET q == FirstOf(s, {LSQUO, RSQUO}, p)
    IN  \/ /\ q <= Len(s)
           /\ q - 1 >= p
           /\ ~IsWord(s[q - 1])
           /\ ~Boundary(s, q - 1)
           /\ Boundary(s, q + 1)
        \/ /\ At(s, q + 1) \in {LSQUO, RSQUO}
           /\ ~Boundary(s, q)
           /\ Boundary(s, q + 2)

LookTail(s, p) ==
    LET q == FirstOf(s, {LSQUO, RSQUO}, p)
    IN  \/ q > Len(s)
        \/ /\ q - 1 >= p
           /\ ~IsWord(s[q - 1])
           /\ ~Boundary(s, q - 1)
           /\ Boundary(s, q + 1)
        \/ /\ At(s, q + 1) \in {LSQUO, RSQUO}
           /\ ~Boundary(s, q)
           /\ Boundary(s, q + 2)

RECURSIVE LookAhead(_, _)
LookAhead(s, p) ==
    \/ LookTail(s, p)
    \/ LET q == FirstOf(s, {LSQUO, RSQUO}, p)
       IN  /\ q <= Len(s)
           /\ s[q] = RSQUO
           /\ Boundary(s, q + 1)
           /\ LookAhead(s, q + 1)

(* The largest j in lo..hi with s[j] = ‘ followed by a non-digit, or 0:    *)
(* where the backtracking of [^’]* in the abbreviated-years rule stops.    *)
RECURSIVE LastOpener(_, _, _)
LastOpener(s, lo, hi) ==
    IF hi < lo THEN 0
    ELSE IF s[hi] = LSQUO /\ Has(s, hi + 1) /\ ~IsDigit(s[hi + 1]) THEN hi
    ELSE LastOpener(s, lo, hi - 1)

(* The length of the run of periods starting at i.                         *)
RECURSIVE PeriodRun(_, _)
PeriodRun(s, i) == IF At(s, i) = PERIOD THEN 1 + PeriodRun(s, i + 1) ELSE 0

(* The length of the match of rule r's pattern starting at position i of   *)
(* s, or 0 when the pattern does not match there.                          *)
MatchLen(r, s, i) ==
    CASE r = 1 ->   \* triple prime
           IF s[i] = APOS /\ At(s, i + 1) = APOS /\ At(s, i + 2) = APOS
           THEN 3 ELSE 0
      [] r = 2 ->   \* beginning ": (\W|^)"(\w)
           IF ~IsWord(s[i]) /\ At(s, i + 1) = QUOT /\ WordAt(s, i + 2) THEN 3
           ELSE IF i = 1 /\ s[i] = QUOT /\ WordAt(s, i + 1) THEN 2
           ELSE 0
      [] r = 3 ->   \* ending ": (“[^"]*)"([^"]*$|[^“"]*“)
           IF s[i] # LDQUO THEN 0
           ELSE LET k == FirstOf(s, {QUOT}, i + 1)
                    m == FirstOf(s, {QUOT, LDQUO}, k + 1)
                IN  IF k > Len(s) THEN 0
                    ELSE IF FirstOf(s, {QUOT}, k + 1) > Len(s)
                         THEN Len(s) - i + 1
                    ELSE IF At(s, m) = LDQUO THEN m - i + 1
                    ELSE 0
      [] r = 4 ->   \* remaining " at end of word: ([^0-9])"
           IF ~IsDigit(s[i]) /\ At(s, i + 1) = QUOT THEN 2 ELSE 0
      [] r = 5 ->   \* double prime as two single quotes
           IF s[i] = APOS /\ At(s, i + 1) = APOS THEN 2 ELSE 0
      [] r = 6 ->   \* beginning ': (\W|^)'(\S)
           IF /\ ~IsWord(s[i]) /\ At(s, i + 1) = APOS
              /\ Has(s, i + 2) /\ ~IsWhite(s[i + 2]) THEN 3
           ELSE IF /\ i = 1 /\ s[i] = APOS
                   /\ Has(s, i + 1) /\ ~IsWhite(s[i + 1]) THEN 2
           ELSE 0
      [] r = 7 ->   \* conjunction possession: ([a-z])'([a-z]), i flag
           IF /\ IsLetterAZ(s[i]) /\ At(s, i + 1) = APOS
              /\ IsLetterAZ(At(s, i + 2)) THEN 3
           ELSE 0
      [] r = 8 ->   \* abbrev. years: (‘)([0-9]{2}[^’]*)(‘([^0-9]|$)|$|’[a-z])
           IF ~(s[i] = LSQUO /\ IsDigit(At(s, i + 1)) /\ IsDigit(At(s, i + 2)))
           THEN 0
           ELSE LET e == FirstOf(s, {RSQUO}, i + 3)
                    j == LastOpener(s, i + 3, e - 1)
                IN  IF e > Len(s) THEN Len(s) - i + 1
                    ELSE IF IsLetterAZ(At(s, e + 1)) THEN e - i + 2
                    ELSE IF j > 0 THEN j - i + 2
                    ELSE 0
      [] r = 9 ->   \* ending ': ((‘[^']*)|[a-z])'([^0-9]|$)
           IF s[i] = LSQUO
           THEN LET k == FirstOf(s, {APOS}, i + 1)
                IN  IF k > Len(s) THEN 0
                    ELSE IF k = Len(s) THEN k - i + 1
                    ELSE IF ~IsDigit(s[k + 1]) THEN k - i + 2
                    ELSE 0
           ELSE IF IsLetterAZ(s[i]) /\ At(s, i + 1) = APOS
           THEN IF i + 1 = Len(s) THEN 2
                ELSE IF ~IsDigit(s[i + 2]) THEN 3
                ELSE 0
           ELSE 0
      [] r = 10 ->  \* backwards apostrophe: (\B|^)‘(?=...)
           IF s[i] = LSQUO /\ ~WordAt(s, i - 1) /\ LookAhead(s, i + 1)
           THEN 1 ELSE 0
      [] r = 11 ->  \* double prime
           IF s[i] = QUOT THEN 1 ELSE 0
      [] r = 12 ->  \* prime
           IF s[i] = APOS THEN 1 ELSE 0
      [] r = 13 ->  \* -- to em-dash
           IF s[i] = HYPHEN /\ At(s, i + 1) = HYPHEN THEN 2 ELSE 0
      [] r = 14 ->  \* .. to ellipsis: \.\.+
           IF PeriodRun(s, i) >= 2 THEN PeriodRun(s, i) ELSE 0

(* The match s[i..i+n-1] with its first code unit equal to c replaced by d *)
(* (the text of the groups around it is copied, as '$1d$2' does).          *)
RECURSIVE Swap(_, _, _, _, _)
Swap(s, i, n, c, d) ==
    IF n = 0 THEN <<>>
    ELSE IF s[i] = c THEN <<d>> \o Slice(s, i + 1, i + n - 1)
    ELSE <<s[i]>> \o Swap(s, i + 1, n - 1, c, d)

(* The replacement text of rule r for its match s[i..i+n-1].               *)
Replacement(r, s, i, n) ==
    CASE r = 1 -> <<TPRIME>>
      [] r = 2 -> IF n = 3 THEN <<s[i], LDQUO, s[i + 2]>>
                  ELSE <<LDQUO, s[i + 1]>>
      [] r = 3 -> <<LDQUO>> \o Swap(s, i + 1, n - 1, QUOT, RDQUO)
      [] r = 4 -> <<s[i], RDQUO>>
      [] r = 5 -> <<DPRIME>>
      [] r = 6 -> IF n = 3 THEN <<s[i], LSQUO, s[i + 2]>>
                  ELSE <<LSQUO, s[i + 1]>>
      [] r = 7 -> <<s[i], RSQUO, s[i + 2]>>
      [] r = 8 -> <<RSQUO>> \o Slice(s, i + 1, i + n - 1)
      [] r = 9 -> Swap(s, i, n, APOS, RSQUO)
      [] r = 10 -> <<RSQUO>>
      [] r = 11 -> <<DPRIME>>
      [] r = 12 -> <<PRIME>>
      [] r = 13 -> <<EMDASH>>
      [] r = 14 -> <<ELLIPSIS>>

(* subject.replace(search, replacement) with rule r's global pattern, from *)
(* position i on: no pattern of the cascade matches the empty string.      *)
RECURSIVE ReplaceFrom(_, _, _)
ReplaceFrom(r, s, i) ==
    IF i > Len(s) THEN <<>>
    ELSE LET n == MatchLen(r, s, i)
         IN  IF n > 0 THEN Replacement(r, s, i, n) \o ReplaceFrom(r, s, i + n)
             ELSE <<s[i]>> \o ReplaceFrom(r, s, i + 1)

(* The replace with the em-dash rule taking every single hyphen.           *)
ApplyRuleEveryHyphen(r, s) ==
    IF r = 13
    THEN [i \in 1..Len(s) |-> IF s[i] = HYPHEN THEN EMDASH ELSE s[i]]
    ELSE ReplaceFrom(r, s, 1)

(* The replace with the prime rule left out.                               *)
ApplyRuleNoPrime(r, s) == IF r = 12 THEN s ELSE ReplaceFrom(r, s, 1)

(* The replace with the ending-apostrophe rule left out.                   *)
ApplyRuleNoEnding(r, s) == IF r = 9 THEN s ELSE ReplaceFrom(r, s, 1)

(* The replace with the double-prime rule left out.                        *)
ApplyRuleNoDoublePrime(r, s) == IF r = 11 THEN s ELSE ReplaceFrom(r, s, 1)

ApplyRule(r, s) == ReplaceFrom(r, s, 1)

(* The reduce over the first n rules of the cascade.                       *)
RECURSIVE Reduce(_, _)
Reduce(n, s) == IF n = 0 THEN s ELSE ApplyRule(n, Reduce(n - 1, s))

quotes(s) == Reduce(NumRules, s)

----------------------------------------------------------------------------
(* proper: String.prototype.toUpperCase / toLowerCase on the code units    *)
(* that survive proper's character restriction (ASCII letters, digits,     *)
(* U+00C0..U+00FF, the curly apostrophe).  toUpperCase maps U+00DF to two  *)
(* code units ("SS") and U+00FF to U+0178; U+00D7 and U+00F7 are the       *)
(* multiplication and division signs and have no case.                     *)
ToUpperChar(c) ==
    IF IsLowerAZ(c) THEN <<c - 32>>
    ELSE IF c \in (224..254) \ {247} THEN <<c - 32>>
    ELSE IF c = 255 THEN <<376>>
    ELSE IF c = 223 THEN <<83, 83>>
    ELSE <<c>>

ToLowerChar(c) ==
    IF IsUpperAZ(c) THEN c + 32
    ELSE IF c \in (192..222) \ {215} THEN c + 32
    ELSE c

RECURSIVE toUpperCase(_)
toUpperCase(s) ==
    IF s = <<>> THEN <<>> ELSE ToUpperChar(Head(s)) \o toUpperCase(Tail(s))

toLowerCase(s) == [i \in 1..Len(s) |-> ToLowerChar(s[i])]

(* value.charAt(0).toUpperCase() + value.slice(1)                          *)
ucFirst(s) == IF s = <<>> THEN <<>> ELSE ToUpperChar(s[1]) \o Tail(s)

(* hasBothUpperAndLower testing for an uppercase letter only.              *)
hasUpperOnly(s) == \E i \in 1..Len(s) : IsUpperAZ(s[i])

(* /[A-Z]/.test(value) && /[a-z]/.test(value)                              *)
hasBothUpperAndLower(s) ==
    /\ \E i \in 1..Len(s) : IsUpperAZ(s[i])
    /\ \E i \in 1..Len(s) : IsLowerAZ(s[i])

(* The exception lists of properNameCapitalizer, as code units.            *)
UpperSuffixes == { <<105, 105>>, <<105, 105, 105>>, <<105, 118>>, <<118>> }
LowerParticles == { <<100, 105, 116>>, <<100, 101>>, <<118, 111, 110>> }

(* The length of group 1 of /^(ma?c|[od]’)(\S{2,}$)/i on t, or 0 when the  *)
(* pattern does not match t.                                               *)
RestOk(t, p) ==
    /\ Len(t) - p >= 2
    /\ \A i \in (p + 1)..Len(t) : ~IsWhite(t[i])

PrefixLen(t) ==
    IF At(t, 1) \in {77, 109} /\ At(t, 2) \in {65, 97} /\ At(t, 3) \in {67, 99}
       /\ RestOk(t, 3) THEN 3
    ELSE IF At(t, 1) \in {77, 109} /\ At(t, 2) \in {67, 99} /\ RestOk(t, 2)
    THEN 2
    ELSE IF At(t, 1) \in {79, 111, 68, 100} /\ At(t, 2) = RSQUO /\ RestOk(t, 2)
    THEN 2
    ELSE 0

(* The standard case without the McXx, MacXx, O’Xx, D’Xx replace.          *)
StandardCaseNoFixup(lowerCaseMatch) == ucFirst(lowerCaseMatch)

(* The standard case: ucFirst(lowerCaseMatch).replace(McXx, MacXx, ...).   *)
StandardCase(lowerCaseMatch) ==
    LET t == ucFirst(lowerCaseMatch)
        p == PrefixLen(t)
    IN  IF p = 0 THEN t
        ELSE ucFirst(Slice(t, 1, p)) \o ucFirst(Slice(t, p + 1, Len(t)))

(* properNameCapitalizer with mixed-case preservation tested before the    *)
(* two exception lists.                                                    *)
properNameCapitalizerMixedFirst(mixed, match) ==
    LET lowerCaseMatch == toLowerCase(match)
    IN  IF Len(match) = 1 THEN toUpperCase(match)
        ELSE IF Len(match) <= 3 /\ mixed THEN match
        ELSE IF Len(match) <= 3 /\ lowerCaseMatch \in UpperSuffixes
        THEN toUpperCase(match)
        ELSE IF Len(match) <= 3 /\ lowerCaseMatch \in LowerParticles
        THEN lowerCaseMatch
        ELSE StandardCase(lowerCaseMatch)

(* properNameCapitalizer without the single-letter test.                   *)
properNameCapitalizerNoInitials(mixed, match) ==
    LET lowerCaseMatch == toLowerCase(match)
    IN  IF Len(match) <= 3 /\ lowerCaseMatch \in UpperSuffixes
        THEN toUpperCase(match)
        ELSE IF Len(match) <= 3 /\ lowerCaseMatch \in LowerParticles
        THEN lowerCaseMatch
        ELSE IF Len(match) <= 3 /\ mixed THEN match
        ELSE StandardCase(lowerCaseMatch)

properNameCapitalizer(mixed, match) ==
    LET lowerCaseMatch == toLowerCase(match)
    IN  IF Len(match) = 1 THEN toUpperCase(match)
        ELSE IF Len(match) <= 3 /\ lowerCaseMatch \in UpperSuffixes
        THEN toUpperCase(match)
        ELSE IF Len(match) <= 3 /\ lowerCaseMatch \in LowerParticles
        THEN lowerCaseMatch
        ELSE IF Len(match) <= 3 /\ mixed THEN match
        ELSE StandardCase(lowerCaseMatch)

(* [^A-Za-z0-9À-ÿ’ ,-]                                           *)
Allowed(c) ==
    \/ IsLetterAZ(c) \/ IsDigit(c)
    \/ c \in 192..255
    \/ c \in {RSQUO, SPACE, COMMA, HYPHEN}

(* .replace(/[^A-Za-z0-9À-ÿ’ ,-]/g, ' ')                         *)
Restrict(s) == [i \in 1..Len(s) |-> IF Allowed(s[i]) THEN s[i] ELSE SPACE]

(* The end (exclusive) of the run of code units of set cs starting at i.   *)
RECURSIVE RunEnd(_, _, _)
RunEnd(s, cs, i) ==
    IF i <= Len(s) /\ s[i] \in cs THEN RunEnd(s, cs, i + 1) ELSE i

(* .replace(/  +/g, ' ')                                                   *)
RECURSIVE CollapseFrom(_, _)
CollapseFrom(s, i) ==
    IF i > Len(s) THEN <<>>
    ELSE IF s[i] = SPACE /\ At(s, i + 1) = SPACE
    THEN <<SPACE>> \o CollapseFrom(s, RunEnd(s, {SPACE}, i))
    ELSE <<s[i]>> \o CollapseFrom(s, i + 1)

Collapse(s) == CollapseFrom(s, 1)

(* .trim()                                                                 *)
RECURSIVE TrimStart(_)
TrimStart(s) ==
    IF s # <<>> /\ IsWhite(Head(s)) THEN TrimStart(Tail(s)) ELSE s

RECURSIVE TrimEnd(_)
TrimEnd(s) ==
    IF s # <<>> /\ IsWhite(s[Len(s)]) THEN TrimEnd(Slice(s, 1, Len(s) - 1))
    ELSE s

Trim(s) == TrimEnd(TrimStart(s))

(* The end (exclusive) of the token [^ ,-]+ starting at i.                 *)
Separators == {SPACE, COMMA, HYPHEN}

RECURSIVE TokenEnd(_, _)
TokenEnd(s, i) ==
    IF i <= Len(s) /\ s[i] \notin Separators THEN TokenEnd(s, i + 1) ELSE i

(* The tokens capitalized and put together again with a space in the place *)
(* of every separator.                                                     *)
RECURSIVE CapitalizeFromJoined(_, _, _)
CapitalizeFromJoined(mixed, s, i) ==
    IF i > Len(s) THEN <<>>
    ELSE IF s[i] \in Separators
    THEN <<SPACE>> \o CapitalizeFromJoined(mixed, s, i + 1)
    ELSE LET e == TokenEnd(s, i)
         IN  properNameCapitalizer(mixed, Slice(s, i, e - 1))
                 \o CapitalizeFromJoined(mixed, s, e)

(* .replace(/([^ ,-]+)/g, properNameCapitalizer(mixed))                    *)
RECURSIVE CapitalizeFrom(_, _, _)
CapitalizeFrom(mixed, s, i) ==
    IF i > Len(s) THEN <<>>
    ELSE IF s[i] \in Separators THEN <<s[i]>> \o CapitalizeFrom(mixed, s, i + 1)
    ELSE LET e == TokenEnd(s, i)
         IN  properNameCapitalizer(mixed, Slice(s, i, e - 1))
                 \o CapitalizeFrom(mixed, s, e)

Capitalize(mixed, s) == CapitalizeFrom(mixed, s, 1)

proper(s) == Capitalize(hasBothUpperAndLower(s), Trim(Collapse(Restrict(s))))

----------------------------------------------------------------------------
(* coerce(value).to(...sanitizers).or(otherwise).  A JavaScript value is a *)
(* record: type is what typeof gives, cls the constructor (instanceof      *)
(* Error holds for the error classes), by and n the payload.               *)
JsValue(type, cls, by, n) == [type |-> type, cls |-> cls, by |-> by, n |-> n]
Num(n) == JsValue("number", "Number", "", n)
Undefined == JsValue("undefined", "", "", 0)
Null == JsValue("object", "null", "", 0)
EmptyString == JsValue("string", "String", "", 0)
Fn(name) == JsValue("function", "Function", name, 0)
NewError(cls, by, n) == JsValue("object", cls, by, n)
ErrorClasses == {"Error", "TypeError", "CustomError"}
InstanceOfError(v) == v.cls \in ErrorClasses
None == JsValue("none", "", "", 0)

(* What a call does: it returns a value or throws one.                     *)
Returns(v) == [kind |-> "returned", val |-> v]
Throws(v) == [kind |-> "threw", val |-> v]
Pending == [kind |-> "pending", val |-> None]

(* The sanitizers the pipeline is run with: the validators nonZero,        *)
(* positive and negative, and limit(1).  Each returns a value or throws    *)
(* an Error that tells which sanitizer refused which value.                *)
SanitizerNames == {"nonZero", "positive", "negative", "limit1"}

Sanitize(name, v) ==
    CASE name = "nonZero" ->
           IF v.n # 0 THEN Returns(v) ELSE Throws(NewError("Error", name, v.n))
      [] name = "positive" ->
           IF v.n > 0 THEN Returns(v) ELSE Throws(NewError("Error", name, v.n))
      [] name = "negative" ->
           IF v.n < 0 THEN Returns(v) ELSE Throws(NewError("Error", name, v.n))
      [] name = "limit1" ->
           Returns(Num(IF v.n < 1 THEN v.n ELSE 1))

(* The functions given as otherwise: the README's errorFactory, which      *)
(* returns new CustomError(error.message), and the test's errorHandler,    *)
(* which returns new Error(error).  TypeError is the constructor that      *)
(* params puts in the place of a missing second argument: called as a      *)
(* function it returns a new TypeError.                                    *)
OtherwiseFunctions == {"errorFactory", "errorHandler"}

CallOtherwise(name, e) ==
    CASE name = "errorFactory" -> NewError("CustomError", e.by, e.n)
      [] name = "errorHandler" -> NewError("Error", name, e.n)
      [] name = "TypeError" -> NewError("TypeError", name, e.n)

(* handleFailure without its instanceof test: every object is thrown.      *)
handleFailureAnyObject(o, e) ==
    IF o.type = "function" THEN Throws(CallOtherwise(o.by, e))
    ELSE IF o.type = "object" THEN Throws(o)
    ELSE Returns(o)

(* handleFailure(otherwise, error)                                         *)
handleFailure(o, e) ==
    IF o.type = "function" THEN Throws(CallOtherwise(o.by, e))
    ELSE IF o.type = "object" /\ InstanceOfError(o) THEN Throws(o)
    ELSE Returns(o)

----------------------------------------------------------------------------
(* The inputs.                                                             *)
MaxSanitizers == 3
MaxNumber == 2
MaxQuoteLen == 4
MaxProperLen == 3
MaxWords == 2

(* All sequences over cs of length at most n.                              *)
RECURSIVE Strs(_, _)
Strs(cs, n) ==
    IF n = 0 THEN {<<>>}
    ELSE LET P == Strs(cs, n - 1)
         IN  P \cup {Append(p, c) : p \in {q \in P : Len(q) = n - 1}, c \in cs}

Numbers == {Num(n) : n \in (-1)..MaxNumber}
Otherwises ==
    {Fn(f) : f \in OtherwiseFunctions}
      \cup {NewError("Error", "expected", 0), NewError("TypeError", "expected", 0)}
      \cup {Undefined, Null, Num(0), Num(1), EmptyString}

(* ' " a 9 space . - ‘ ’                                                   *)
QuoteAlphabet == {APOS, QUOT, 97, 57, SPACE, PERIOD, HYPHEN, LSQUO, RSQUO}
QuoteExamples ==
    { \* it's the '90s
      <<105, 116, 39, 115, 32, 116, 104, 101, 32, 39, 57, 48, 115>>,
      \* '80s, '90s and '00s
      <<39, 56, 48, 115, 44, 32, 39, 57, 48, 115, 32, 97, 110, 100, 32,
        39, 48, 48, 115>>,
      \* ’80s, ‘90s and ’00s
      <<8217, 56, 48, 115, 44, 32, 8216, 57, 48, 115, 32, 97, 110, 100, 32,
        8217, 48, 48, 115>>,
      \* john q. o'donnel, III
      <<106, 111, 104, 110, 32, 113, 46, 32, 111, 39, 100, 111, 110, 110,
        101, 108, 44, 32, 73, 73, 73>>,
      \* "a9" "b9"
      <<34, 97, 57, 34, 32, 34, 98, 57, 34>>,
      \* "a." "b" "c9"
      <<34, 97, 46, 34, 32, 34, 98, 34, 32, 34, 99, 57, 34>>,
      \* "a9" "b."
      <<34, 97, 57, 34, 32, 34, 98, 46, 34>>,
      \* '1993
      <<39, 49, 57, 57, 51>>,
      \* a'b'c
      <<97, 39, 98, 39, 99>>,
      \* --a'b
      <<45, 45, 97, 39, 98>>,
      \* 6'2"
      <<54, 39, 50, 34>>,
      \* ...9'
      <<46, 46, 46, 57, 39>> }
QuoteInputs == Strs(QuoteAlphabet, MaxQuoteLen) \cup QuoteExamples

(* a i B V É 9 space , - . × ÷ ’                                           *)
ProperAlphabet ==
    {97, 105, 66, 86, 201, 57, SPACE, COMMA, HYPHEN, PERIOD, 215, 247, RSQUO}
(* ii iii iv de dit von abc mcd mcdo maca macar o’do d’an                  *)
Words ==
    { <<105, 105>>, <<105, 105, 105>>, <<105, 118>>,
      <<100, 101>>, <<100, 105, 116>>, <<118, 111, 110>>,
      <<97, 98, 99>>,
      <<109, 99, 100>>, <<109, 99, 100, 111>>,
      <<109, 97, 99, 97>>, <<109, 97, 99, 97, 114>>,
      <<111, 8217, 100, 111>>, <<100, 8217, 97, 110>> }
CasedWords == Words \cup {toUpperCase(w) : w \in Words} \cup {ucFirst(w) : w \in Words}
Joins == { <<SPACE>> }
RECURSIVE Phrases(_)
Phrases(n) ==
    IF n = 1 THEN CasedWords
    ELSE Phrases(n - 1) \cup {p \o j \o w : p \in Phrases(n - 1), j \in Joins, w \in CasedWords}
ProperExamples ==
    { \* john q. o’donnel, III
      <<106, 111, 104, 110, 32, 113, 46, 32, 111, 8217, 100, 111, 110, 110,
        101, 108, 44, 32, 73, 73, 73>>,
      \* ABC company
      <<65, 66, 67, 32, 99, 111, 109, 112, 97, 110, 121>>,
      \* abc company
      <<97, 98, 99, 32, 99, 111, 109, 112, 97, 110, 121>>,
      \* VON Trap
      <<86, 79, 78, 32, 84, 114, 97, 112>>,
      \* 12 main st, apt 3b
      <<49, 50, 32, 109, 97, 105, 110, 32, 115, 116, 44, 32, 97, 112, 116,
        32, 51, 98>>,
      \* abc Von
      <<97, 98, 99, 32, 86, 111, 110>> }
ProperInputs ==
    Strs(ProperAlphabet, MaxProperLen) \cup Phrases(MaxWords) \cup ProperExamples

----------------------------------------------------------------------------
(* The calls.                                                              *)
Idle(o) ==
    /\ op = o
    /\ step = 0
    /\ mixedCase = FALSE
    /\ calls = <<>>
    /\ error = None
    /\ handled = <<>>
    /\ outcome = Pending

InitCoerce ==
    /\ Idle("coerce")
    /\ pc = "pipe"
    /\ value \in Numbers
    /\ subject = value
    /\ sanitizers \in Strs(SanitizerNames, MaxSanitizers)
    /\ otherwise \in Otherwises

InitQuotes ==
    /\ Idle("quotes")
    /\ pc = "reduce"
    /\ value \in QuoteInputs
    /\ subject = value
    /\ sanitizers = <<>>
    /\ otherwise = Undefined

InitProper ==
    /\ Idle("proper")
    /\ pc = "restrict"
    /\ value \in ProperInputs
    /\ subject = value
    /\ sanitizers = <<>>
    /\ otherwise = Undefined

(* pipe walking the functions from the last to the first.                  *)
PipeCallReversed ==
    /\ pc = "pipe"
    /\ step < Len(sanitizers)
    /\ LET f == sanitizers[Len(sanitizers) - step]
           r == Sanitize(f, subject)
       IN  /\ calls' = Append(calls, <<f, subject>>)
           /\ IF r.kind = "returned"
              THEN /\ subject' = r.val
                   /\ step' = step + 1
                   /\ UNCHANGED <<pc, error>>
              ELSE /\ pc' = "catch"
                   /\ error' = r.val
                   /\ UNCHANGED <<subject, step>>
    /\ UNCHANGED <<op, value, mixedCase, sanitizers, otherwise, handled, outcome>>

(* pipe going on to the next function after a throw, keeping the error.    *)
PipeCallContinue ==
    /\ pc = "pipe"
    /\ step < Len(sanitizers)
    /\ LET r == Sanitize(sanitizers[step + 1], subject)
       IN  /\ calls' = Append(calls, <<sanitizers[step + 1], subject>>)
           /\ step' = step + 1
           /\ IF r.kind = "returned"
              THEN /\ subject' = r.val
                   /\ UNCHANGED <<pc, error>>
              ELSE /\ pc' = IF step + 1 = Len(sanitizers) THEN "catch" ELSE "pipe"
                   /\ error' = r.val
                   /\ UNCHANGED subject
    /\ UNCHANGED <<op, value, mixedCase, sanitizers, otherwise, handled, outcome>>

(* pipe: functions[index](value), then pipe(newValue, functions, index+1); *)
(* a throw leaves pipe and lands in the catch clause of or.                *)
PipeCall ==
    /\ pc = "pipe"
    /\ step < Len(sanitizers)
    /\ LET r == Sanitize(sanitizers[step + 1], subject)
       IN  /\ calls' = Append(calls, <<sanitizers[step + 1], subject>>)
           /\ IF r.kind = "returned"
              THEN /\ subject' = r.val
                   /\ step' = step + 1
                   /\ UNCHANGED <<pc, error>>
              ELSE /\ pc' = "catch"
                   /\ error' = r.val
                   /\ UNCHANGED <<subject, step>>
    /\ UNCHANGED <<op, value, mixedCase, sanitizers, otherwise, handled, outcome>>

(* pipe: index === functions.length, return value                          *)
PipeReturn ==
    /\ pc = "pipe"
    /\ step = Len(sanitizers)
    /\ pc' = "done"
    /\ outcome' = Returns(subject)
    /\ UNCHANGED <<op, value, subject, step, mixedCase, sanitizers, otherwise,
                   calls, error, handled>>

(* or: catch (error) { return handleFailure(otherwise, error); }           *)
HandleFailure ==
    /\ pc = "catch"
    /\ pc' = "done"
    /\ outcome' = handleFailure(otherwise, error)
    /\ handled' = IF otherwise.type = "function"
                  THEN Append(handled, <<otherwise.by, error>>)
                  ELSE handled
    /\ UNCHANGED <<op, value, subject, step, mixedCase, sanitizers, otherwise,
                   calls, error>>

(* quotes: one turn of the reduce, subject.replace(search, replacement)    *)
QuotesRule ==
    /\ pc = "reduce"
    /\ step < NumRules
    /\ subject' = ApplyRule(step + 1, subject)
    /\ step' = step + 1
    /\ UNCHANGED <<op, pc, value, mixedCase, sanitizers, otherwise, calls,
                   error, handled, outcome>>

QuotesReturn ==
    /\ pc = "reduce"
    /\ step = NumRules
    /\ pc' = "done"
    /\ outcome' = Returns(subject)
    /\ UNCHANGED <<op, value, subject, step, mixedCase, sanitizers, otherwise,
                   calls, error, handled>>

(* proper: the chain of replace, replace, trim, replace                    *)
ProperRestrict ==
    /\ pc = "restrict"
    /\ subject' = Restrict(subject)
    /\ pc' = "collapse"
    /\ UNCHANGED <<op, value, step, mixedCase, sanitizers, otherwise, calls,
                   error, handled, outcome>>

ProperCollapse ==
    /\ pc = "collapse"
    /\ subject' = Collapse(subject)
    /\ pc' = "trim"
    /\ UNCHANGED <<op, value, step, mixedCase, sanitizers, otherwise, calls,
                   error, handled, outcome>>

ProperTrim ==
    /\ pc = "trim"
    /\ subject' = Trim(subject)
    /\ pc' = "flag"
    /\ UNCHANGED <<op, value, step, mixedCase, sanitizers, otherwise, calls,
                   error, handled, outcome>>

(* the argument of the last replace: hasBothUpperAndLower(value)           *)
ProperFlag ==
    /\ pc = "flag"
    /\ mixedCase' = hasBothUpperAndLower(value)
    /\ pc' = "capitalize"
    /\ UNCHANGED <<op, value, subject, step, sanitizers, otherwise, calls,
                   error, handled, outcome>>

ProperCapitalize ==
    /\ pc = "capitalize"
    /\ subject' = Capitalize(mixedCase, subject)
    /\ outcome' = Returns(Capitalize(mixedCase, subject))
    /\ pc' = "done"
    /\ UNCHANGED <<op, value, step, mixedCase, sanitizers, otherwise, calls,
                   error, handled>>

NextCoerce == PipeCall \/ PipeReturn \/ HandleFailure
NextQuotes == QuotesRule \/ QuotesReturn
NextProper ==
    ProperRestrict \/ ProperCollapse \/ ProperTrim \/ ProperFlag \/ ProperCapitalize

Init == InitCoerce
Next == NextCoerce
Spec == Init /\ [][Next]_vars
SpecQuotes == InitQuotes /\ [][NextQuotes]_vars
SpecProper == InitProper /\ [][NextProper]_vars

----------------------------------------------------------------------------
(* What the claims speak of.                                               *)

(* The call has ended.                                                     *)
Done == pc = "done"

(* The pipeline failed: a sanitizer threw and or's catch clause caught it. *)
Failed == Done /\ op = "coerce" /\ error # None

(* s1, ..., sn applied to v in argument order, given that none throws.     *)
RECURSIVE Composed(_, _)
Composed(fs, v) ==
    IF fs = <<>> THEN v ELSE Composed(Tail(fs), Sanitize(Head(fs), v).val)

(* None of the first n sanitizers throws on what the ones before it give.  *)
RECURSIVE NoneThrows(_, _)
NoneThrows(fs, v) ==
    \/ fs = <<>>
    \/ /\ Sanitize(Head(fs), v).kind = "returned"
       /\ NoneThrows(Tail(fs), Sanitize(Head(fs), v).val)

(* The tokens [^ ,-]+ of s, in order.                                      *)
RECURSIVE TokensFrom(_, _)
TokensFrom(s, i) ==
    IF i > Len(s) THEN <<>>
    ELSE IF s[i] \in Separators THEN TokensFrom(s, i + 1)
    ELSE <<Slice(s, i, TokenEnd(s, i) - 1)>> \o TokensFrom(s, TokenEnd(s, i))

Tokens(s) == TokensFrom(s, 1)

(* The string proper splits into tokens: value with the excluded code      *)
(* units replaced by spaces, the runs of spaces collapsed, the ends        *)
(* trimmed.                                                                *)
Cleaned(s) == Trim(Collapse(Restrict(s)))

(* proper has returned; InTokens are the tokens it was given and OutTokens *)
(* what stands in their places in the result.                              *)
ProperDone == Done /\ op = "proper"
InTokens == Tokens(Cleaned(value))
OutTokens == Tokens(outcome.val)

QuotesDone == Done /\ op = "quotes"

(* ii, iii, iv and dit, de, von: the two exception lists as the claims     *)
(* give them.                                                              *)
RomanSuffixes == { <<105, 105>>, <<105, 105, 105>>, <<105, 118>> }
NameParticles == { <<100, 105, 116>>, <<100, 101>>, <<118, 111, 110>> }

(* The input has both an uppercase and a lowercase letter of A-Z, a-z.     *)
InputMixed ==
    /\ \E i \in 1..Len(value) : value[i] \in 65..90
    /\ \E i \in 1..Len(value) : value[i] \in 97..122

(* s holds the two code units a, b next to each other.                     *)
HasPair(s, a, b) == \E i \in 1..(Len(s) - 1) : s[i] = a /\ s[i + 1] = b

----------------------------------------------------------------------------
(* C1: when a sanitizer has thrown, or() does one of three things, chosen  *)
(* by otherwise alone: a function otherwise is called once, with the       *)
(* thrown error, and what it returns is thrown; an Error instance is       *)
(* thrown itself; any other otherwise (undefined, null, 0, '' among them)  *)
(* is returned and nothing is thrown.  The error is the one the failing    *)
(* sanitizer threw.                                                        *)
C1_ThreeWayFailure ==
    Failed =>
        /\ error = Sanitize(calls[Len(calls)][1], calls[Len(calls)][2]).val
        /\ Sanitize(calls[Len(calls)][1], calls[Len(calls)][2]).kind = "threw"
        /\ IF otherwise.type = "function"
           THEN /\ handled = << <<otherwise.by, error>> >>
                /\ outcome.kind = "threw"
                /\ outcome.val = CallOtherwise(otherwise.by, error)
           ELSE IF otherwise.cls \in ErrorClasses
           THEN /\ handled = <<>>
                /\ outcome.kind = "threw"
                /\ outcome.val = otherwise
           ELSE /\ handled = <<>>
                /\ outcome.kind = "returned"
                /\ outcome.val = otherwise

(* A failed pipeline whose otherwise was null: null came back.             *)
C1_Witness == Failed /\ otherwise = Null /\ outcome = Returns(Null)

(* C2: when no sanitizer throws, or() returns sn(...s2(s1(value))): every  *)
(* sanitizer was called exactly once, in argument order, on the result of  *)
(* the one before it (the first on value); otherwise was not called, and   *)
(* nothing was thrown; with no sanitizers the result is value.             *)
C2_Composition ==
    (Done /\ op = "coerce" /\ NoneThrows(sanitizers, value)) =>
        /\ error = None
        /\ outcome.kind = "returned"
        /\ outcome.val = Composed(sanitizers, value)
        /\ Len(calls) = Len(sanitizers)
        /\ \A i \in 1..Len(calls) :
              /\ calls[i][1] = sanitizers[i]
              /\ calls[i][2] = Composed(SubSeq(sanitizers, 1, i - 1), value)
        /\ handled = <<>>
        /\ (sanitizers = <<>> => outcome.val = value)

(* Three sanitizers ran, none threw, and the result differs from value.    *)
C2_Witness ==
    /\ Done /\ op = "coerce" /\ error = None
    /\ Len(sanitizers) = 3
    /\ Len(calls) = 3
    /\ outcome.kind = "returned"
    /\ outcome.val # value

(* C3: the output of proper holds only letters, digits, the curly          *)
(* apostrophe, space, comma and hyphen; no symbol of U+00C0..U+00FF that   *)
(* is not a letter (the multiplication sign U+00D7, the division sign      *)
(* U+00F7) ever appears in it.                                             *)
IsLetter(c) ==
    \/ c \in 65..90 \/ c \in 97..122
    \/ c \in (192..255) \ {215, 247}
    \/ c = 376

C3_OutputCharacters ==
    ProperDone =>
        \A i \in 1..Len(outcome.val) :
            \/ IsLetter(outcome.val[i])
            \/ outcome.val[i] \in 48..57
            \/ outcome.val[i] \in {RSQUO, SPACE, COMMA, HYPHEN}

(* C4: for every input without a straight apostrophe, a straight double    *)
(* quote, "--" and "..", quotes returns its input.                         *)
C4_FixedPoint ==
    (/\ QuotesDone
     /\ \A i \in 1..Len(value) : value[i] \notin {APOS, QUOT}
     /\ ~HasPair(value, HYPHEN, HYPHEN)
     /\ ~HasPair(value, PERIOD, PERIOD)) => outcome.val = value

(* C5: quotes is idempotent: running it on its own output changes nothing. *)
(* Stated for the inputs that hold no curly quote, so that every curly     *)
(* quote of the output is one the first run chose.                         *)
C5_Idempotent ==
    (/\ QuotesDone
     /\ \A i \in 1..Len(value) : value[i] \notin {LSQUO, RSQUO})
        => quotes(outcome.val) = outcome.val

(* C6: a token of length 2 or 3 whose lowercase form is ii, iii or iv is   *)
(* output fully uppercased, and one whose lowercase form is dit, de or von *)
(* fully lowercased, whether the input has both cases or not.              *)
C6_ExceptionLists ==
    ProperDone =>
        /\ Len(OutTokens) = Len(InTokens)
        /\ \A k \in 1..Len(InTokens) :
              LET tok == InTokens[k]
              IN  /\ (Len(tok) \in {2, 3} /\ toLowerCase(tok) \in RomanSuffixes)
                        => OutTokens[k] = toUpperCase(tok)
                  /\ (Len(tok) \in {2, 3} /\ toLowerCase(tok) \in NameParticles)
                        => OutTokens[k] = toLowerCase(tok)

(* "VON Trap" gave "von Trap", and a mixed-case input with a suffix        *)
(* written in lowercase gave it in uppercase.                              *)
C6_Witness ==
    /\ ProperDone
    /\ value = <<86, 79, 78, 32, 84, 114, 97, 112>>
    /\ outcome.val = <<118, 111, 110, 32, 84, 114, 97, 112>>
    /\ InputMixed

C8_Initials ==
    ProperDone =>
        /\ Len(OutTokens) = Len(InTokens)
        /\ \A k \in 1..Len(InTokens) :
              Len(InTokens[k]) = 1 => OutTokens[k] = ToUpperChar(InTokens[k][1])

(* A lowercase initial in an input that has both cases.                    *)
C8_Witness ==
    /\ ProperDone
    /\ InputMixed
    /\ \E k \in 1..Len(InTokens) :
          /\ InTokens[k] = <<97>>
          /\ k <= Len(OutTokens)
          /\ OutTokens[k] = <<65>>

(* C9: a token in the standard case (length >= 4, or length 2-3 outside    *)
(* both exception lists in an input that has not both cases) is output as  *)
(* its lowercase form with the first character uppercased; when the        *)
(* lowercase form starts with mc, mac, o’ or d’ and at least two more      *)
(* characters follow the prefix, the first character after the prefix is   *)
(* uppercased too.  Nothing else is uppercased, so the output is a         *)
(* function of the lowercase form.                                         *)
NamePrefixes ==
    { <<109, 99>>, <<109, 97, 99>>, <<111, 8217>>, <<100, 8217>> }

StartsWith(s, p) == Len(s) >= Len(p) /\ SubSeq(s, 1, Len(p)) = p

(* The lowercase form low with the code unit at position i uppercased.     *)
UpperAt(low, i) ==
    Slice(low, 1, i - 1) \o ToUpperChar(low[i]) \o Slice(low, i + 1, Len(low))

TitleCased(low) ==
    IF \E p \in NamePrefixes : StartsWith(low, p) /\ Len(low) >= Len(p) + 2
    THEN LET p == CHOOSE q \in NamePrefixes :
                      StartsWith(low, q) /\ Len(low) >= Len(q) + 2
         IN  ToUpperChar(low[1]) \o Tail(UpperAt(low, Len(p) + 1))
    ELSE ToUpperChar(low[1]) \o Tail(low)

C9_StandardCase ==
    ProperDone =>
        /\ Len(OutTokens) = Len(InTokens)
        /\ \A k \in 1..Len(InTokens) :
              LET tok == InTokens[k]
                  low == toLowerCase(tok)
              IN  (\/ Len(tok) >= 4
                   \/ /\ Len(tok) \in {2, 3}
                      /\ low \notin RomanSuffixes \cup NameParticles
                      /\ ~InputMixed)
                    => OutTokens[k] = TitleCased(low)

(* MCDO and o’do came out as McDo and O’Do.                                *)
C9_Witness ==
    /\ ProperDone
    /\ \E k \in 1..Len(InTokens) :
          /\ InTokens[k] = <<77, 67, 68, 79>>
          /\ k <= Len(OutTokens)
          /\ OutTokens[k] = <<77, 99, 68, 111>>
    /\ \E k \in 1..Len(InTokens) :
          /\ InTokens[k] = <<111, 8217, 100, 111>>
          /\ k <= Len(OutTokens)
          /\ OutTokens[k] = <<79, 8217, 68, 111>>

(* C10: a straight apostrophe that starts the text or follows a non-word   *)
(* character and is followed by two digits becomes the curly apostrophe    *)
(* U+2019, and so does an apostrophe between two letters.  Stated for the  *)
(* inputs that hold no curly quote and no sequence a rule shortens, so     *)
(* that positions in the input and in the output are the same.             *)
C10_DecadeApostrophe ==
    (/\ QuotesDone
     /\ \A i \in 1..Len(value) : value[i] \notin {LSQUO, RSQUO}
     /\ ~HasPair(value, APOS, APOS)
     /\ ~HasPair(value, HYPHEN, HYPHEN)
     /\ ~HasPair(value, PERIOD, PERIOD)) =>
        /\ Len(outcome.val) = Len(value)
        /\ \A i \in 1..Len(value) :
              (/\ value[i] = APOS
               /\ ~WordAt(value, i - 1)
               /\ IsDigit(At(value, i + 1))
               /\ IsDigit(At(value, i + 2))) => outcome.val[i] = RSQUO
        /\ \A i \in 1..Len(value) :
              (/\ value[i] = APOS
               /\ IsLetterAZ(At(value, i - 1))
               /\ IsLetterAZ(At(value, i + 1))) => outcome.val[i] = RSQUO

----------------------------------------------------------------------------
(* The quote characters: the straight ones, the curly ones and the primes. *)
QuoteLike ==
    {APOS, QUOT, LSQUO, RSQUO, LDQUO, RDQUO, PRIME, DPRIME, TPRIME}

NoQuoteLike(s) == \A i \in 1..Len(s) : s[i] \notin QuoteLike

(* C11, as written: quotes returns the empty string for the empty string   *)
(* and returns unchanged every input that holds no quote character.        *)
C11_NoQuoteUnchanged ==
    (QuotesDone /\ NoQuoteLike(value)) => outcome.val = value

(* C11: quotes returns the empty string for the empty string and returns   *)
(* unchanged every input that holds no quote character, no "--" and no     *)
(* "..": the last two rules of the cascade rewrite hyphens and periods.    *)
C11_NoQuoteNoRunUnchanged ==
    (/\ QuotesDone
     /\ NoQuoteLike(value)
     /\ ~HasPair(value, HYPHEN, HYPHEN)
     /\ ~HasPair(value, PERIOD, PERIOD)) => outcome.val = value

(* "a-9." went through the fourteen rules and came back as it was.         *)
C11_Witness ==
    /\ QuotesDone
    /\ step = NumRules
    /\ value = <<97, HYPHEN, 57, PERIOD>>
    /\ outcome.val = value

----------------------------------------------------------------------------
(* A character the restriction of proper is said to exclude: anything but  *)
(* a letter, a digit, the curly apostrophe, the space, the comma and the   *)
(* hyphen.                                                                 *)
Excluded(c) ==
    ~(IsLetter(c) \/ c \in 48..57 \/ c \in {RSQUO, SPACE, COMMA, HYPHEN})

(* C12: proper never fails; it returns the empty string for the empty      *)
(* string and for every input made only of excluded characters and         *)
(* spaces; its output never starts or ends with a space and never holds    *)
(* two spaces in a row.                                                    *)
C12_TotalAndTrimmed ==
    ProperDone =>
        /\ outcome.kind = "returned"
        /\ (\A i \in 1..Len(value) : Excluded(value[i]) \/ value[i] = SPACE)
              => outcome.val = <<>>
        /\ outcome.val # <<>> =>
              /\ outcome.val[1] # SPACE
              /\ outcome.val[Len(outcome.val)] # SPACE
        /\ ~HasPair(outcome.val, SPACE, SPACE)

----------------------------------------------------------------------------
(* Several calls of quotes and proper in flight at once.  Every variable   *)
(* of a call is a local of that call (the rule table of quotes is an array *)
(* literal built by each call, the regular expressions of proper are       *)
(* literals of each call), so here op, pc, value, subject, step, mixedCase *)
(* and outcome hold one value for each call, and a step of one call reads  *)
(* and writes that call's values only.                                     *)
MaxCalls == 2
CallIds == 1..MaxCalls

(* 'a  "a"  for quotes;  a  B  VON  for proper                             *)
QuoteCallInputs == { <<APOS, 97>>, <<QUOT, 97, QUOT>> }
ProperCallInputs == { <<97, SPACE, SPACE, 66>>, <<86, 79, 78>> }

InitCalls ==
    /\ op \in [CallIds -> {"quotes", "proper"}]
    /\ value \in [CallIds -> QuoteCallInputs \cup ProperCallInputs]
    /\ \A c \in CallIds :
          value[c] \in IF op[c] = "quotes" THEN QuoteCallInputs
                       ELSE ProperCallInputs
    /\ pc = [c \in CallIds |-> IF op[c] = "quotes" THEN "reduce" ELSE "restrict"]
    /\ subject = value
    /\ step = [c \in CallIds |-> 0]
    /\ mixedCase = [c \in CallIds |-> FALSE]
    /\ outcome = [c \in CallIds |-> Pending]
    /\ sanitizers = <<>>
    /\ otherwise = Undefined
    /\ calls = <<>>
    /\ error = None
    /\ handled = <<>>

(* One turn of the reduce of call c, every call counting its turns in the  *)
(* same counter.                                                           *)
RunQuotesRuleSharedStep(c) ==
    /\ op[c] = "quotes"
    /\ pc[c] = "reduce"
    /\ step[c] < NumRules
    /\ subject' = [subject EXCEPT ![c] = ApplyRule(step[c] + 1, subject[c])]
    /\ step' = [d \in CallIds |-> step[c] + 1]
    /\ UNCHANGED <<op, pc, value, mixedCase, sanitizers, otherwise, calls,
                   error, handled, outcome>>

(* quotes, call c: one turn of the reduce                                  *)
RunQuotesRule(c) ==
    /\ op[c] = "quotes"
    /\ pc[c] = "reduce"
    /\ step[c] < NumRules
    /\ subject' = [subject EXCEPT ![c] = ApplyRule(step[c] + 1, subject[c])]
    /\ step' = [step EXCEPT ![c] = step[c] + 1]
    /\ UNCHANGED <<op, pc, value, mixedCase, sanitizers, otherwise, calls,
                   error, handled, outcome>>

(* quotes, call c: the reduce is over                                      *)
RunQuotesReturn(c) ==
    /\ op[c] = "quotes"
    /\ pc[c] = "reduce"
    /\ step[c] = NumRules
    /\ pc' = [pc EXCEPT ![c] = "done"]
    /\ outcome' = [outcome EXCEPT ![c] = Returns(subject[c])]
    /\ UNCHANGED <<op, value, subject, step, mixedCase, sanitizers, otherwise,
                   calls, error, handled>>

(* proper, call c: one link of the chain replace, replace, trim; then the  *)
(* flag; then the last replace, whose result is returned                   *)
RunProperLink(c) ==
    /\ op[c] = "proper"
    /\ pc[c] \in {"restrict", "collapse", "trim"}
    /\ subject' = [subject EXCEPT ![c] =
                      CASE pc[c] = "restrict" -> Restrict(subject[c])
                        [] pc[c] = "collapse" -> Collapse(subject[c])
                        [] pc[c] = "trim" -> Trim(subject[c])]
    /\ pc' = [pc EXCEPT ![c] =
                      CASE pc[c] = "restrict" -> "collapse"
                        [] pc[c] = "collapse" -> "trim"
                        [] pc[c] = "trim" -> "flag"]
    /\ UNCHANGED <<op, value, step, mixedCase, sanitizers, otherwise, calls,
                   error, handled, outcome>>

RunProperFlag(c) ==
    /\ op[c] = "proper"
    /\ pc[c] = "flag"
    /\ mixedCase' = [mixedCase EXCEPT ![c] = hasBothUpperAndLower(value[c])]
    /\ pc' = [pc EXCEPT ![c] = "capitalize"]
    /\ UNCHANGED <<op, value, subject, step, sanitizers, otherwise, calls,
                   error, handled, outcome>>

RunProperCapitalize(c) ==
    /\ op[c] = "proper"
    /\ pc[c] = "capitalize"
    /\ subject' = [subject EXCEPT ![c] = Capitalize(mixedCase[c], subject[c])]
    /\ outcome' = [outcome EXCEPT ![c] =
                      Returns(Capitalize(mixedCase[c], subject[c]))]
    /\ pc' = [pc EXCEPT ![c] = "done"]
    /\ UNCHANGED <<op, value, step, mixedCase, sanitizers, otherwise, calls,
                   error, handled>>

NextCalls ==
    \E c \in CallIds :
        \/ RunQuotesRule(c)
        \/ RunQuotesReturn(c)
        \/ RunProperLink(c)
        \/ RunProperFlag(c)
        \/ RunProperCapitalize(c)

SpecCalls == InitCalls /\ [][NextCalls]_vars

(* What a call returns when it runs alone.                                 *)
Alone(o, v) == Returns(IF o = "quotes" THEN quotes(v) ELSE proper(v))

(* C13: in every interleaving of the calls, a call that has ended returned *)
(* what it returns when run alone on its argument, and two calls of the    *)
(* same function with equal arguments returned equal results.              *)
C13_NoSharedState ==
    /\ \A c \in CallIds :
          pc[c] = "done" => outcome[c] = Alone(op[c], value[c])
    /\ \A c, d \in CallIds :
          (/\ pc[c] = "done" /\ pc[d] = "done"
           /\ op[c] = op[d] /\ value[c] = value[d]) => outcome[c] = outcome[d]

(* A call of quotes ended, with a result that differs from its argument,   *)
(* while another call of quotes had applied some rules and not all.        *)
C13_Witness ==
    \E c, d \in CallIds :
        /\ c # d
        /\ op[c] = "quotes" /\ pc[c] = "done" /\ outcome[c].val # value[c]
        /\ op[d] = "quotes" /\ pc[d] = "reduce"
        /\ step[d] > 5 /\ step[d] < NumRules /\ subject[d] # value[d]

----------------------------------------------------------------------------
(* The other entry point: coerce(...coercers) gives a function called as   *)
(* coercer(value) or coercer(value, otherwise).  Here value holds args,    *)
(* the arguments of the call, and sanitizers holds the coercers.           *)

(* params with a default parameter value in place of the argument count.   *)
paramsDefaultValue(args) ==
    IF Len(args) = 1 \/ args[2] = Undefined
    THEN <<args[1], Fn("TypeError")>>
    ELSE args

(* params(args)                                                            *)
params(args) ==
    IF Len(args) = 1 THEN <<args[1], Fn("TypeError")>> ELSE args

(* failure(error, otherwise)                                               *)
failure(e, o) ==
    IF o.type = "function" THEN Throws(CallOtherwise(o.by, e))
    ELSE IF o.type = "object" /\ InstanceOfError(o) THEN Throws(o)
    ELSE Returns(o)

InitCoercer ==
    /\ op = "coercer"
    /\ pc = "params"
    /\ step = 0
    /\ mixedCase = FALSE
    /\ calls = <<>>
    /\ error = None
    /\ handled = <<>>
    /\ outcome = Pending
    /\ value \in {<<v>> : v \in Numbers}
                  \cup {<<v, o>> : v \in Numbers, o \in Otherwises}
    /\ subject = Undefined
    /\ sanitizers \in Strs(SanitizerNames, MaxSanitizers)
    /\ otherwise = Undefined

(* const [value, otherwise] = params(args)                                 *)
CoercerParams ==
    /\ pc = "params"
    /\ subject' = params(value)[1]
    /\ otherwise' = params(value)[2]
    /\ pc' = "reduce"
    /\ UNCHANGED <<op, value, step, mixedCase, sanitizers, calls,
                   error, handled, outcome>>

(* coercers.reduce(pipe, value): one call of pipe, coercer(value); a throw *)
(* lands in the catch clause.                                              *)
CoercerPipe ==
    /\ pc = "reduce"
    /\ op = "coercer"
    /\ step < Len(sanitizers)
    /\ LET r == Sanitize(sanitizers[step + 1], subject)
       IN  /\ calls' = Append(calls, <<sanitizers[step + 1], subject>>)
           /\ IF r.kind = "returned"
              THEN /\ subject' = r.val
                   /\ step' = step + 1
                   /\ UNCHANGED <<pc, error>>
              ELSE /\ pc' = "catch"
                   /\ error' = r.val
                   /\ UNCHANGED <<subject, step>>
    /\ UNCHANGED <<op, value, mixedCase, sanitizers, otherwise, handled, outcome>>

(* the reduce is over: its result is returned                              *)
CoercerReturn ==
    /\ pc = "reduce"
    /\ op = "coercer"
    /\ step = Len(sanitizers)
    /\ pc' = "done"
    /\ outcome' = Returns(subject)
    /\ UNCHANGED <<op, value, subject, step, mixedCase, sanitizers, otherwise,
                   calls, error, handled>>

(* catch (error) { return failure(error, otherwise); }                     *)
CoercerCatch ==
    /\ pc = "catch"
    /\ op = "coercer"
    /\ pc' = "done"
    /\ outcome' = failure(error, otherwise)
    /\ handled' = IF otherwise.type = "function"
                  THEN Append(handled, <<otherwise.by, error>>)
                  ELSE handled
    /\ UNCHANGED <<op, value, subject, step, mixedCase, sanitizers, otherwise,
                   calls, error>>

NextCoercer == CoercerParams \/ CoercerPipe \/ CoercerReturn \/ CoercerCatch

SpecCoercer == InitCoercer /\ [][NextCoercer]_vars

(* A call of the coercer ended after one of its coercers threw.            *)
CoercerFailed == pc = "done" /\ op = "coercer" /\ error # None

(* C14: when a coercer throws, the call coercer(value) throws a TypeError; *)
(* the call coercer(value, otherwise) uses its second argument as          *)
(* otherwise, undefined included: undefined is then returned and nothing   *)
(* is thrown.                                                              *)
C14_ArgumentCount ==
    CoercerFailed =>
        IF Len(value) = 1
        THEN outcome.kind = "threw" /\ outcome.val.cls = "TypeError"
        ELSE /\ value[2] = Undefined => outcome = Returns(Undefined)
             /\ value[2].type = "function" =>
                   outcome = Throws(CallOtherwise(value[2].by, error))
             /\ value[2].cls \in ErrorClasses => outcome = Throws(value[2])
             /\ (value[2].type # "function" /\ value[2].cls \notin ErrorClasses)
                   => outcome = Returns(value[2])

(* coercer(value, undefined) failed and returned undefined.                *)
C14_Witness ==
    /\ CoercerFailed
    /\ Len(value) = 2
    /\ value[2] = Undefined
    /\ outcome = Returns(Undefined)

----------------------------------------------------------------------------
(* digits, phone and phone10.                                              *)

(* value.replace(/[^\d]/g, '')                                             *)
RECURSIVE digits(_)
digits(s) ==
    IF s = <<>> THEN <<>>
    ELSE IF IsDigit(Head(s)) THEN <<Head(s)>> \o digits(Tail(s))
    ELSE digits(Tail(s))

(* replace(/^[01]+/, '') taking one leading 0 or 1 only.                   *)
StripLeadingOnce(s) ==
    IF s # <<>> /\ Head(s) \in {48, 49} THEN Tail(s) ELSE s

(* replace(/^[01]+/, '')                                                   *)
RECURSIVE StripLeading(_)
StripLeading(s) ==
    IF s # <<>> /\ Head(s) \in {48, 49} THEN StripLeading(Tail(s)) ELSE s

(* The length phone asks for at least and phone10 exactly.                 *)
PhoneLength == 10

(* The inputs: a lead of up to MaxLead code units of 0 1 + space, then     *)
(* PhoneLength - MaxSlack .. PhoneLength + MaxSlack digits 2345678901234.. *)
(* with one of - x put in at some place; and the inputs of the tests.      *)
MaxLead == 2
MaxSlack == 2

PhoneBody(n) == [k \in 1..n |-> 48 + ((k + 1) % 10)]

PhoneBodies ==
    UNION { { Slice(PhoneBody(n), 1, p) \o <<sep>> \o Slice(PhoneBody(n), p + 1, n) :
                p \in 0..n, sep \in {HYPHEN, 120} } :
            n \in (PhoneLength - MaxSlack)..(PhoneLength + MaxSlack) }

PhoneInputs ==
    { lead \o body : lead \in Strs({48, 49, 43, SPACE}, MaxLead),
                     body \in PhoneBodies }
      \cup
    { \* +1 (222) 333-4444x555
      <<43, 49, 32, 40, 50, 50, 50, 41, 32, 51, 51, 51, 45, 52, 52, 52, 52,
        120, 53, 53, 53>>,
      \* +1 (222) 333-4444
      <<43, 49, 32, 40, 50, 50, 50, 41, 32, 51, 51, 51, 45, 52, 52, 52, 52>>,
      \* +1 (222) 333-444
      <<43, 49, 32, 40, 50, 50, 50, 41, 32, 51, 51, 51, 45, 52, 52, 52>>,
      \* +1 (222) 333-44444
      <<43, 49, 32, 40, 50, 50, 50, 41, 32, 51, 51, 51, 45, 52, 52, 52, 52, 52>>,
      <<>> }

InitPhone ==
    /\ op \in {"phone", "phone10"}
    /\ Idle(op)
    /\ pc = "digits"
    /\ value \in PhoneInputs
    /\ subject = value
    /\ sanitizers = <<>>
    /\ otherwise = Undefined

(* phone: digits(value)                                                    *)
PhoneDigits ==
    /\ pc = "digits"
    /\ subject' = digits(subject)
    /\ pc' = "strip"
    /\ UNCHANGED <<op, value, step, mixedCase, sanitizers, otherwise, calls,
                   error, handled, outcome>>

(* phone: .replace(/^[01]+/, '')                                           *)
PhoneStrip ==
    /\ pc = "strip"
    /\ subject' = StripLeading(subject)
    /\ pc' = "length"
    /\ UNCHANGED <<op, value, step, mixedCase, sanitizers, otherwise, calls,
                   error, handled, outcome>>

(* phone: if (onlyDigits.length < 10) throw new TypeError; return          *)
PhoneCheck ==
    /\ pc = "length"
    /\ IF Len(subject) < PhoneLength
       THEN /\ pc' = "done"
            /\ outcome' = Throws(NewError("TypeError", "phone", 0))
       ELSE IF op = "phone"
       THEN /\ pc' = "done"
            /\ outcome' = Returns(subject)
       ELSE /\ pc' = "length10"
            /\ UNCHANGED outcome
    /\ UNCHANGED <<op, value, subject, step, mixedCase, sanitizers, otherwise,
                   calls, error, handled>>

(* phone10: if (valid.length !== 10) throw new TypeError; return valid     *)
Phone10Check ==
    /\ pc = "length10"
    /\ pc' = "done"
    /\ outcome' = IF Len(subject) # PhoneLength
                  THEN Throws(NewError("TypeError", "phone10", 0))
                  ELSE Returns(subject)
    /\ UNCHANGED <<op, value, subject, step, mixedCase, sanitizers, otherwise,
                   calls, error, handled>>

NextPhone == PhoneDigits \/ PhoneStrip \/ PhoneCheck \/ Phone10Check

SpecPhone == InitPhone /\ [][NextPhone]_vars

(* The digits of s that remain when every non-digit and then every         *)
(* leading 0 and 1 is taken away.                                          *)
IsDigitUnit(c) == c \in 48..57
OnlyDigits(s) == SelectSeq(s, IsDigitUnit)
FirstKept(s) ==
    IF \E i \in 1..Len(s) : s[i] \notin {48, 49}
    THEN CHOOSE i \in 1..Len(s) :
            s[i] \notin {48, 49} /\ \A j \in 1..(i - 1) : s[j] \in {48, 49}
    ELSE Len(s) + 1
Remaining(s) == Slice(OnlyDigits(s), FirstKept(OnlyDigits(s)), Len(OnlyDigits(s)))

(* C15: phone10 succeeds exactly when 10 digits remain and returns them;   *)
(* phone succeeds exactly when 10 or more remain and returns them; a       *)
(* failure is a thrown TypeError; a result holds digits only and does not  *)
(* start with 0 or 1.                                                      *)
C15_PhoneDigits ==
    (pc = "done" /\ op \in {"phone", "phone10"}) =>
        LET rem == Remaining(value)
            ok == IF op = "phone10" THEN Len(rem) = 10 ELSE Len(rem) >= 10
        IN  IF ok
            THEN /\ outcome = Returns(rem)
                 /\ \A i \in 1..Len(outcome.val) : outcome.val[i] \in 48..57
                 /\ outcome.val[1] \notin {48, 49}
            ELSE /\ outcome.kind = "threw"
                 /\ outcome.val.cls = "TypeError"

(* phone10 returned the 10 digits left of an input that led with 0 and 1   *)
(* and held a 0 and a 1 further on.                                        *)
C15_Witness ==
    /\ pc = "done"
    /\ op = "phone10"
    /\ Len(value) = 13
    /\ value[1] = 48 /\ value[2] = 49
    /\ outcome.kind = "returned"
    /\ Len(outcome.val) = 10
    /\ \E i \in 2..10 : outcome.val[i] = 48

----------------------------------------------------------------------------
(* The call of the log at place k threw.                                   *)
CallThrew(k) == Sanitize(calls[k][1], calls[k][2]).kind = "threw"

(* C16: once a sanitizer has thrown no later sanitizer is called: the      *)
(* sanitizers are called in order, each at most once, and a call that      *)
(* threw is the last of the log; otherwise is consulted only after that,   *)
(* and a function otherwise is handed the error of that very call.         *)
C16_AbortAtFirstFailure ==
    op = "coerce" =>
        /\ Len(calls) <= Len(sanitizers)
        /\ \A k \in 1..Len(calls) :
              /\ calls[k][1] = sanitizers[k]
              /\ CallThrew(k) => k = Len(calls)
        /\ error # None =>
              /\ calls # <<>>
              /\ CallThrew(Len(calls))
              /\ error = Sanitize(calls[Len(calls)][1], calls[Len(calls)][2]).val
        /\ pc = "pipe" => (error = None /\ handled = <<>> /\ outcome = Pending)
        /\ error = None => handled = <<>>
        /\ handled # <<>> =>
              /\ error # None
              /\ handled = << <<otherwise.by, error>> >>

(* The first of three sanitizers threw, the other two were never called,   *)
(* and the function given as otherwise got the error of the first.         *)
C16_Witness ==
    /\ Failed
    /\ Len(sanitizers) = 3
    /\ Len(calls) = 1
    /\ otherwise.type = "function"
    /\ handled = << <<otherwise.by, NewError("Error", sanitizers[1], value.n)>> >>

----------------------------------------------------------------------------
(* s from position i on is one or more spans separated by one space, each  *)
(* a straight double quote, a body that starts with a word character and   *)
(* holds no quote character, and a straight double quote.                  *)
RECURSIVE IsSpansFrom(_, _)
IsSpansFrom(s, i) ==
    LET k == FirstOf(s, {QUOT}, i + 1)
    IN  /\ At(s, i) = QUOT
        /\ WordAt(s, i + 1)
        /\ k <= Len(s)
        /\ \A j \in (i + 1)..(k - 1) : s[j] \notin QuoteLike
        /\ \/ k = Len(s)
           \/ At(s, k + 1) = SPACE /\ IsSpansFrom(s, k + 2)

(* The number of straight double quotes of s before position i.            *)
QuotesBefore(s, i) == Cardinality({j \in 1..(i - 1) : s[j] = QUOT})

(* C17: in an input made of double-quoted spans separated by spaces, every *)
(* span's first quote becomes U+201C and its last quote U+201D, whatever   *)
(* the body ends with.  Stated for bodies without "--" and "..", so that   *)
(* the places of the input and of the output are the same.                 *)
C17_QuotedSpans ==
    (/\ QuotesDone
     /\ IsSpansFrom(value, 1)
     /\ ~HasPair(value, HYPHEN, HYPHEN)
     /\ ~HasPair(value, PERIOD, PERIOD)) =>
        /\ Len(outcome.val) = Len(value)
        /\ \A i \in 1..Len(value) :
              value[i] = QUOT =>
                 outcome.val[i] = IF QuotesBefore(value, i) % 2 = 0
                                  THEN LDQUO ELSE RDQUO

----------------------------------------------------------------------------
(* C18: the abbreviated-years rule, the eighth of the cascade, turns an    *)
(* opening quote U+2018 into U+2019 only when the quote is followed by     *)
(* exactly two digits and then a non-digit or the end of the text; a quote *)
(* followed by three or more digits is not rewritten by this rule.         *)
C18_ExactlyTwoDigits ==
    [][(op = "quotes" /\ step = 7 /\ step' = 8) =>
          /\ Len(subject') = Len(subject)
          /\ \A i \in 1..Len(subject) :
                (subject[i] = LSQUO /\ subject'[i] = RSQUO) =>
                    /\ IsDigit(At(subject, i + 1))
                    /\ IsDigit(At(subject, i + 2))
                    /\ ~IsDigit(At(subject, i + 3))]_vars

----------------------------------------------------------------------------
(* C19: for an input without curly quotes, no opening quote U+2018 of the  *)
(* output is left dangling: a closing U+2019 stands somewhere after it.    *)
C19_NoDanglingOpener ==
    (/\ QuotesDone
     /\ \A i \in 1..Len(value) : value[i] \notin {LSQUO, RSQUO, LDQUO, RDQUO})
        => \A i \in 1..Len(outcome.val) :
              outcome.val[i] = LSQUO =>
                 \E j \in (i + 1)..Len(outcome.val) : outcome.val[j] = RSQUO

(* '80s, '90s and '00s: the output holds an opening quote, before 90s, and *)
(* a closing one after it; and the ninth rule had left U+2018 at the start *)
(* for the backwards-apostrophe rule to flip.                              *)
C19_Witness ==
    /\ QuotesDone
    /\ value = <<39, 56, 48, 115, 44, 32, 39, 57, 48, 115, 32, 97, 110, 100, 32,
                 39, 48, 48, 115>>
    /\ outcome.val[7] = LSQUO
    /\ outcome.val[16] = RSQUO
    /\ Reduce(9, value)[16] = LSQUO

----------------------------------------------------------------------------
(* C20: the output of quotes holds no straight apostrophe, no straight     *)
(* double quote, no two hyphens in a row and no two periods in a row.      *)
C20_NothingStraightLeft ==
    QuotesDone =>
        /\ \A i \in 1..Len(outcome.val) : outcome.val[i] \notin {APOS, QUOT}
        /\ ~HasPair(outcome.val, HYPHEN, HYPHEN)
        /\ ~HasPair(outcome.val, PERIOD, PERIOD)

(* An apostrophe and a double quote that no directional rule took became   *)
(* a prime and a double prime: 9'9" gave 9′9″.                             *)
C20_Witness ==
    /\ QuotesDone
    /\ value = <<57, APOS, 57, QUOT>>
    /\ outcome.val = <<57, PRIME, 57, DPRIME>>

----------------------------------------------------------------------------
(* The rules that shorten the subject: ''' and '' give one code unit, --   *)
(* gives one, a run of two or more periods gives one.  RunLength is the    *)
(* length of the run of s[i] that starts at i; ShortenedLen is the number  *)
(* of code units these rules leave of s[i..]; Landing is the position at   *)
(* which position i of the input stands once the code units before it are  *)
(* shortened.                                                              *)
RECURSIVE RunLength(_, _)
RunLength(s, i) ==
    IF At(s, i + 1) = s[i] THEN 1 + RunLength(s, i + 1) ELSE 1

RECURSIVE ShortenedLen(_, _)
ShortenedLen(s, i) ==
    IF i > Len(s) THEN 0
    ELSE LET n == RunLength(s, i)
             kept == CASE s[i] = APOS   -> (n + 2) \div 3
                       [] s[i] = HYPHEN -> (n + 1) \div 2
                       [] s[i] = PERIOD -> 1
                       [] OTHER         -> n
         IN  kept + ShortenedLen(s, i + n)

Landing(s, i) == ShortenedLen(Slice(s, 1, i - 1), 1) + 1

(* Position i of s holds a single straight apostrophe between two          *)
(* lowercase letters.                                                      *)
Contraction(s, i) ==
    /\ Has(s, i)
    /\ s[i] = APOS
    /\ IsLowerAZ(At(s, i - 1))
    /\ IsLowerAZ(At(s, i + 1))

(* C21 as stated: every single straight apostrophe between two lowercase   *)
(* letters of the input of quotes is U+2019 at the same position of the    *)
(* output.                                                                 *)
C21_SamePosition ==
    QuotesDone =>
        \A i \in 1..Len(value) :
            Contraction(value, i) => At(outcome.val, i) = RSQUO

(* C21: every single straight apostrophe between two lowercase letters of  *)
(* the input of quotes is U+2019 in the output, at the position the        *)
(* apostrophe has once the runs before it are shortened, which is its own  *)
(* position when nothing before it is shortened; it is neither U+2018 nor  *)
(* a prime.                                                                *)
C21_ContractionApostrophe ==
    QuotesDone =>
        /\ Len(outcome.val) = ShortenedLen(value, 1)
        /\ \A i \in 1..Len(value) :
               Contraction(value, i) =>
                   /\ At(outcome.val, Landing(value, i)) = RSQUO
                   /\ (ShortenedLen(value, 1) = Len(value) =>
                           outcome.val[i] = RSQUO)

(* a'b'c gave a’b’c: the possession rule took the first apostrophe and     *)
(* with it the b, the ending rule took the second.                         *)
C21_Witness ==
    /\ QuotesDone
    /\ value = <<97, APOS, 98, APOS, 99>>
    /\ Reduce(7, value) = <<97, RSQUO, 98, APOS, 99>>
    /\ outcome.val = <<97, RSQUO, 98, RSQUO, 99>>

----------------------------------------------------------------------------
(* No code unit of cs stands before position i of s.                       *)
NoneBefore(s, i, cs) == \A j \in 1..(i - 1) : s[j] \notin cs

(* C22: in the input of quotes, a single straight apostrophe that follows  *)
(* a digit, with no apostrophe and no curly single quote before it, is the *)
(* prime U+2032 in the output, and a straight double quote that follows a  *)
(* digit, with no double quote and no curly double quote before it, is the *)
(* double prime U+2033; so it is in particular for the first quote         *)
(* character of an input without curly quotes.                             *)
C22_PrimeAfterDigit ==
    QuotesDone =>
        \A i \in 2..Len(value) :
            IsDigit(value[i - 1]) =>
                /\ ( /\ value[i] = APOS
                     /\ At(value, i + 1) # APOS
                     /\ NoneBefore(value, i, {APOS, LSQUO, RSQUO})
                     => At(outcome.val, Landing(value, i)) = PRIME )
                /\ ( /\ value[i] = QUOT
                     /\ NoneBefore(value, i, {QUOT, LDQUO, RDQUO})
                     => At(outcome.val, Landing(value, i)) = DPRIME )

(* 6'2" gave 6′2″: the apostrophe and the double quote were still straight *)
(* after the ten directional rules.                                        *)
C22_Witness ==
    /\ QuotesDone
    /\ value = <<54, APOS, 50, QUOT>>
    /\ Reduce(10, value) = value
    /\ outcome.val = <<54, PRIME, 50, DPRIME>>

----------------------------------------------------------------------------
(* The uppercase and the lowercase letters among the characters proper     *)
(* accepts: A-Z and U+00C0-U+00DE without the multiplication sign, a-z and *)
(* U+00DF-U+00FF without the division sign.                                *)
IsUpperLetter(c) == IsUpperAZ(c) \/ (c \in 192..222 /\ c # 215)
IsLowerLetter(c) == IsLowerAZ(c) \/ (c \in 223..255 /\ c # 247)

(* C23: the flag proper hands to the capitalizer, once computed, is true   *)
(* exactly when the original input holds an uppercase and a lowercase      *)
(* letter, Latin-1 letters counted like ASCII ones, and it is still that   *)
(* value when the call is done.                                            *)
C23_FlagCountsEveryLetter ==
    (op = "proper" /\ pc \in {"capitalize", "done"}) =>
        mixedCase = ( /\ \E i \in 1..Len(value) : IsUpperLetter(value[i])
                      /\ \E i \in 1..Len(value) : IsLowerLetter(value[i]) )

----------------------------------------------------------------------------
(* Every code unit of s is ASCII.                                          *)
IsAscii(s) == \A i \in 1..Len(s) : s[i] < 128

(* a and b are the same code unit, or the two cases of one letter of A-Z.  *)
SameUpToCase(a, b) ==
    \/ a = b
    \/ IsUpperAZ(a) /\ b = a + 32
    \/ IsLowerAZ(a) /\ b = a - 32

(* C24: for an ASCII input the output of proper has the length of the      *)
(* cleaned string, holds at every position the code unit of the cleaned    *)
(* string or the other case of that letter, and holds every code unit that *)
(* is no letter unchanged; so the separators and digits stay where they    *)
(* are and the tokens keep their order.                                    *)
C24_OnlyCaseChanges ==
    (ProperDone /\ IsAscii(value)) =>
        LET cleaned == Cleaned(value)
        IN  /\ Len(outcome.val) = Len(cleaned)
            /\ \A i \in 1..Len(cleaned) :
                   /\ SameUpToCase(cleaned[i], outcome.val[i])
                   /\ ~IsLetterAZ(cleaned[i]) => outcome.val[i] = cleaned[i]
            /\ Len(OutTokens) = Len(InTokens)
            /\ \A k \in 1..Len(InTokens) :
                   toLowerCase(OutTokens[k]) = toLowerCase(InTokens[k])

(* "12 main st, apt 3b" gave "12 Main St, Apt 3b": the digits, the comma   *)
(* and the spaces stayed, three letters changed case.                      *)
C24_Witness ==
    /\ ProperDone
    /\ value = <<49, 50, 32, 109, 97, 105, 110, 32, 115, 116, 44, 32, 97, 112,
                 116, 32, 51, 98>>
    /\ Cleaned(value) = value
    /\ outcome.val = <<49, 50, 32, 77, 97, 105, 110, 32, 83, 116, 44, 32, 65,
                       112, 116, 32, 51, 98>>

----------------------------------------------------------------------------
(* C25: proper is idempotent: proper applied to the output of proper       *)
(* returns that output.                                                    *)
C25_ProperIdempotent ==
    ProperDone => proper(outcome.val) = outcome.val

====
